---- MODULE Spec2Model ----
(***************************************************************************)
(* Model of the conversion-job runner of LosslessTranscoder13-filename.py: *)
(* the Converter thread (run / convert / stop), the helpers it calls, and  *)
(* the two handlers of the main window that create and cancel Converters.  *)
(*                                                                         *)
(* Units.  Python floats are modelled as integers in hundredths of a       *)
(* second (centiseconds): duration, current_time and the seconds field of  *)
(* a time= token.  Arithmetic is exact, so the rounding of the binary      *)
(* floating point division is not modelled.                                *)
(* Optional values (None) are sequences of length 0 or 1.                  *)
(* stderr is assumed to decode: readline returns text or '' and does not   *)
(* raise.                                                                  *)
(***************************************************************************)
EXTENDS Integers, Sequences, FiniteSets, TLC

\* ------------------------------------------------------------------ bounds
\* longest conversion_queue that add_file builds
MaxJobs == 2
\* most Converter instances start_conversion creates
MaxConverters == 2

Converters == 1..MaxConverters

\* ---------------------------------------------------------------- inputs
None == <<>>
Some(v) == <<v>>

SinglePass == "Single-Pass Encoding"
TwoPass == "Two-Pass Encoding"
Methods == {SinglePass, TwoPass}

\* values of the target size slider (MB) that a Converter is built with
\* (the slider spans 10..5000; values up to 255 keep bytes * 8 within the
\* 32-bit integers of the model checker)
TargetSizes == {10, 250}

\* durations ffprobe reports, in centiseconds: 0.01 s, 45 s, 90 s, 5000 s
Durations == {1, 4500, 9000, 500000}
\* the durations of the files of a batch: 90 s
BatchDurations == {9000}

AudioCopy == <<"-c:a", "copy">>
AudioAAC == <<"-c:a", "aac", "-b:a", "192k">>
AudioMP3 == <<"-c:a", "libmp3lame", "-b:a", "192k">>
AudioNone == <<"-an">>

PadFilter == "scale=1280:720:force_original_aspect_ratio=decrease,pad=1280:720:(ow-iw)/2:(oh-ih)/2:color=black"

\* the audio_settings / resize_settings pairs that callers pass to add_file
AudioChoices == {AudioCopy, AudioAAC, AudioMP3, AudioNone}
ResizeChoices == {<<>>, <<PadFilter>>}
\* the pairs the queued jobs of the runner are drawn from
JobKinds == {<<AudioCopy, <<>>>>, <<AudioAAC, <<PadFilter>>>>}

\* a file name in its parts; PathStr is the string the program handles
File(dir, stem, ext) == [dir |-> dir, stem |-> stem, ext |-> ext]
PathStr(f) == f.dir \o "/" \o f.stem \o "." \o f.ext

\* the paths callers give to add_file for the i-th job of a queue
InputPath(i) == PathStr(File("/in", "clip" \o ToString(i), "mov"))
OutputPath(i) == PathStr(File("/out", "clip" \o ToString(i), "mp4"))

\* a field of a time= token: a number (centiseconds for the last field) or
\* text that float() rejects
Num(v) == [num |-> TRUE, val |-> v]
NaN == [num |-> FALSE, val |-> 0]

\* a line of the encoder's stderr: whether it contains "time=", and the
\* ':'-separated fields of the first whitespace-delimited word after it
Line(has, fields) == [has_time |-> has, fields |-> fields]

\* "frame=   10 fps=0.0 q=-1.0 size= 0kB"
LineNoTime == Line(FALSE, <<>>)
\* "... time=00:00:00.00 bitrate=..."
LineT0 == Line(TRUE, <<Num(0), Num(0), Num(0)>>)
\* "... time=00:00:45.00 bitrate=..."
LineT45 == Line(TRUE, <<Num(0), Num(0), Num(4500)>>)
\* "... time=00:01:30.50 bitrate=..."
LineT90 == Line(TRUE, <<Num(0), Num(1), Num(3050)>>)
\* "... time=00:03:20.00 bitrate=..."
LineT200 == Line(TRUE, <<Num(0), Num(3), Num(2000)>>)
\* "... time=N/A bitrate=N/A"
LineNA == Line(TRUE, <<NaN>>)
\* "... time=00:45.00 bitrate=..." (two fields only)
LineShort == Line(TRUE, <<Num(0), Num(4500)>>)
\* "... time=00:0x:45.00 bitrate=..." (three fields, one not a number)
LineBadField == Line(TRUE, <<Num(0), NaN, Num(4500)>>)

\* what one encoder process writes to stderr before it exits
NoOutput == <<>>
SteadyProgress == <<LineNoTime, LineT45, LineT200>>
BackwardsProgress == <<LineT200, LineT90>>
NoTimestamps == <<LineNA, LineT0>>
GarbledOutput == <<LineNoTime, LineBadField, LineShort>>

\* ------------------------------------------------------- pure functions
Min(a, b) == IF a < b THEN a ELSE b
Max(a, b) == IF a > b THEN a ELSE b
Abs(a) == IF a < 0 THEN -a ELSE a

\* Python int(n / d): the quotient truncated toward zero
IntTrunc(n, d) ==
    IF (n >= 0) = (d > 0) THEN Abs(n) \div Abs(d) ELSE -(Abs(n) \div Abs(d))

\* parse_time that reads a two-field token as MM:SS
parse_time_TwoFields(line) ==
    IF ~line.has_time THEN 0
    ELSE IF \E k \in 1..Len(line.fields) : ~line.fields[k].num THEN 0
    ELSE IF Len(line.fields) = 2
    THEN line.fields[1].val * 6000 + line.fields[2].val
    ELSE IF Len(line.fields) # 3 THEN 0
    ELSE line.fields[1].val * 360000 + line.fields[2].val * 6000
         + line.fields[3].val

\* Converter.parse_time: seconds (here centiseconds) of the time= token, 0
\* when anything in the try block raises
parse_time(line) ==
    IF ~line.has_time THEN 0
    ELSE IF Len(line.fields) # 3 THEN 0
    ELSE IF \E k \in 1..3 : ~line.fields[k].num THEN 0
    ELSE line.fields[1].val * 360000 + line.fields[2].val * 6000
         + line.fields[3].val

\* Progress without the cap at 100
Progress_NoCap(current_time, dur) == IntTrunc(current_time * 100, dur)

\* progress = min(int((current_time / duration) * 100), 100)
Progress(current_time, dur) == Min(IntTrunc(current_time * 100, dur), 100)

\* convert, lines 325-331: the percent sent with progress_signal for one
\* non-empty stderr line, None when the line sends no signal
ProgressSignal(line, dur) ==
    IF line.has_time /\ parse_time(line) > 0
    THEN Some(Progress(parse_time(line), dur))
    ELSE None

\* BitrateKbps without the upper clamp
BitrateKbps_NoCeiling(target_size_mb, dur) ==
    Max(100, IntTrunc(target_size_mb * 1024 * 1024 * 8, dur * 10))

\* target_size_bytes = target_size_mb * 1024 * 1024
\* bitrate_kbps = int((target_size_bytes * 8) / (duration * 1000))
\* bitrate_kbps = max(100, min(bitrate_kbps, 8000))
\* (duration * 1000 is dur * 10 with dur in centiseconds)
BitrateKbps(target_size_mb, dur) ==
    LET target_size_bytes == target_size_mb * 1024 * 1024
        raw == IntTrunc(target_size_bytes * 8, dur * 10)
    IN  Max(100, Min(raw, 8000))

BitrateArg(kbps) == ToString(kbps) \o "k"

\* ------------------------------------------------- command construction
\* convert, lines 232-290: whether the blocking first-pass run is made
NeedsFirstPass(resize_settings, target_size_mb, method) ==
    /\ method = TwoPass
    /\ (resize_settings # <<>> \/ target_size_mb # None)

\* convert, lines 232-290: the value bound to bitrate_kbps, None when no
\* branch assigns it
BitrateOf(resize_settings, target_size_mb, method, dur) ==
    IF resize_settings # <<>>
    THEN IF method \in {SinglePass, TwoPass} /\ target_size_mb # None
         THEN Some(BitrateKbps(target_size_mb[1], dur))
         ELSE None
    ELSE IF target_size_mb # None
         THEN Some(BitrateKbps(target_size_mb[1], dur))
         ELSE None

\* convert, lines 260-264 / 284-288: the arguments added after the first pass
SecondPassArgs(kbps) ==
    <<"-c:v", "libx264", "-pass", "2",
      "-b:v", BitrateArg(kbps), "-maxrate", BitrateArg(kbps)>>

\* VideoArgs that stream-copies the video whenever no target size is set
VideoArgs_CopyWithoutTarget(resize_settings, target_size_mb, method, dur) ==
    LET b == BitrateOf(resize_settings, target_size_mb, method, dur)
        vf == IF resize_settings # <<>> THEN <<"-vf", resize_settings[1]>> ELSE <<>>
    IN
    IF target_size_mb = None
    THEN [raises |-> FALSE, args |-> vf \o <<"-c:v", "copy">>]
    ELSE IF method = SinglePass
    THEN [raises |-> FALSE,
          args |-> vf \o <<"-c:v", "libx264", "-b:v", BitrateArg(b[1]), "-crf", "23">>]
    ELSE [raises |-> FALSE, args |-> vf \o SecondPassArgs(b[1])]

\* convert, lines 232-290: the video arguments; raises (UnboundLocalError)
\* when the two-pass branch reads a bitrate_kbps that was never assigned
VideoArgs(resize_settings, target_size_mb, method, dur) ==
    LET b == BitrateOf(resize_settings, target_size_mb, method, dur)
        single == IF b # None
                  THEN <<"-b:v", BitrateArg(b[1]), "-crf", "23">> ELSE <<>>
    IN
    IF resize_settings # <<>>
    THEN LET head == <<"-vf", resize_settings[1], "-c:v", "libx264">> IN
         IF method = SinglePass
         THEN [raises |-> FALSE, args |-> head \o single]
         ELSE IF method = TwoPass
         THEN IF b = None
              THEN [raises |-> TRUE, args |-> head]
              ELSE [raises |-> FALSE, args |-> head \o SecondPassArgs(b[1])]
         ELSE [raises |-> FALSE, args |-> head]
    ELSE IF target_size_mb # None
    THEN IF method = SinglePass
         THEN [raises |-> FALSE, args |-> <<"-c:v", "libx264">> \o single]
         ELSE IF method = TwoPass
         THEN [raises |-> FALSE, args |-> SecondPassArgs(b[1])]
         ELSE [raises |-> FALSE, args |-> <<>>]
    ELSE [raises |-> FALSE, args |-> <<"-c:v", "copy">>]

\* ffprobe -show_format -show_streams as VideoMetadata.fetch_metadata sees
\* it: whether the call and the JSON parse succeeded, and the streams
Stream(type, name) == [codec_type |-> type, codec_name |-> name]
\* the "format" object: its duration (centiseconds) and bit_rate (bit/s)
\* entries, None when the key is missing
Format(dur, bit_rate) == [duration |-> dur, bit_rate |-> bit_rate]
WholeFormat == Format(Some(9000), Some(1200000))
\* ffprobe missing, exiting non-zero, or printing what json.loads rejects
ProbeFailed == [ok |-> FALSE, streams |-> <<>>, format |-> Format(None, None)]
ProbeVideoOnly ==
    [ok |-> TRUE, streams |-> <<Stream("video", Some("h264"))>>,
     format |-> WholeFormat]
ProbeVideoAudio ==
    [ok |-> TRUE,
     streams |-> <<Stream("video", Some("h264")), Stream("audio", Some("aac"))>>,
     format |-> WholeFormat]
ProbeUnnamedAudio ==
    [ok |-> TRUE,
     streams |-> <<Stream("video", Some("h264")), Stream("audio", None)>>,
     format |-> WholeFormat]
\* valid JSON without duration and bit_rate
ProbeNoFormat ==
    [ok |-> TRUE,
     streams |-> <<Stream("video", Some("h264")), Stream("audio", Some("aac"))>>,
     format |-> Format(None, None)]
ProbeAudioOnly ==
    [ok |-> TRUE, streams |-> <<Stream("audio", Some("aac"))>>,
     format |-> WholeFormat]
FfprobeOutputs ==
    {ProbeFailed, ProbeVideoOnly, ProbeAudioOnly, ProbeVideoAudio,
     ProbeUnnamedAudio}

\* VideoMetadata.fetch_metadata, lines 66-71: audio_codec after the loop
RECURSIVE AudioCodecOf(_, _)
AudioCodecOf(streams, acc) ==
    IF streams = <<>> THEN acc
    ELSE LET s == Head(streams) IN
         AudioCodecOf(Tail(streams),
                      IF s.codec_type = "audio"
                      THEN IF s.codec_name = None THEN "N/A" ELSE s.codec_name[1]
                      ELSE acc)

\* VideoMetadata.__init__ + fetch_metadata: the audio_codec attribute
audio_codec(probe) == IF probe.ok THEN AudioCodecOf(probe.streams, "") ELSE ""

\* AudioArgs that falls back to AAC only for an unnamed audio codec
AudioArgs_CodecOnly(audio_settings, resize_settings, probe) ==
    IF audio_settings = AudioCopy /\ audio_codec(probe) = "N/A"
    THEN AudioAAC
    ELSE audio_settings

\* convert, lines 292-297: the audio arguments put in the command
AudioArgs(audio_settings, resize_settings, probe) ==
    IF audio_settings = AudioCopy
       /\ (audio_codec(probe) = "N/A" \/ resize_settings # <<>>)
    THEN AudioAAC
    ELSE audio_settings

\* convert, lines 229-299: the whole argument list of the main encoder
BuildCommand(job, target_size_mb, method, dur, probe) ==
    <<"ffmpeg", "-y", "-i", job.input_path>>
    \o VideoArgs(job.resize_settings, target_size_mb, method, dur).args
    \o AudioArgs(job.audio_settings, job.resize_settings, probe)
    \o <<job.output_path>>

\* ------------------------------------------------------------------ state
VARIABLES
    \* Converter attributes, per instance
    conversion_queue,               \* list of jobs, in add_file order
    is_stopped,                     \* the stop flag
    target_size_mb,                 \* None or Some(MB)
    size_reduction_method_selected,
    \* the worker thread of each instance: position and locals of run/convert
    pc,                             \* "idle" when run() is not executing
    idx,                            \* position of the for loop in the queue
    duration,                       \* convert's duration, 0 outside convert
    bitrate_kbps,                   \* convert's bitrate_kbps, None if unbound
    cmd,                            \* convert's cmd once built
    metadata,                       \* convert's metadata: None, or Some(what
                                    \* VideoMetadata's ffprobe call gave)
    stderr_pipe,                    \* process.stderr: lines not yet read
    returncode,                     \* process.returncode, None until polled
    pass1_returncode,               \* exit status subprocess.run saw for the
                                    \* first pass, None if none has returned
    \* the operating system: subprocesses launched by the run in progress
    alive,                          \* launched and not yet exited
    term_sent,                      \* the ones that were sent terminate()
    \* observers
    emitted,                        \* signals emitted by the run in progress
    stop_seen,                      \* stop() was called during the run in
                                    \* progress, before all_finished was emitted
    failed,                         \* jobs of the run in progress for which a
                                    \* tool failed or convert raised
    \* VideoConverter (main window) attributes
    current_converter,              \* 0 for None, else the instance
    created,                        \* Converter instances constructed so far
    start_enabled,                  \* start_button.isEnabled()
    cancel_enabled,                 \* cancel_button.isEnabled()
    delivered,                      \* per instance, how many of its signals
                                    \* the main thread's slots have handled
    file_list,                      \* the items of the file list, in order
    metadata_cache,                 \* the files that have a cached VideoMetadata
    metadata_table,                 \* the rows of the metadata table
    resize_widgets,                 \* width_input, height_input,
                                    \* aspect_ratio_dropdown and
                                    \* allow_upscaling_checkbox
    escaped                         \* an exception left a handler of the main
                                    \* window uncaught

convVars == <<conversion_queue, is_stopped, target_size_mb,
              size_reduction_method_selected>>
runVars == <<pc, idx>>
jobVars == <<duration, bitrate_kbps, cmd, metadata, stderr_pipe, returncode,
             pass1_returncode>>
osVars == <<alive, term_sent>>
obsVars == <<emitted, stop_seen, failed>>
listVars == <<file_list, metadata_cache, metadata_table, resize_widgets,
              escaped>>
appVars == <<current_converter, created, start_enabled, cancel_enabled,
             delivered, listVars>>
vars == <<convVars, runVars, jobVars, osVars, obsVars, appVars>>

\* the tuple add_file appends, line 187
Job(input_path, output_path, audio_settings, resize_settings) ==
    [input_path |-> input_path, output_path |-> output_path,
     audio_settings |-> audio_settings, resize_settings |-> resize_settings]

\* a signal: progress_signal(path, percent), finished_signal(path),
\* error_signal(path, message), all_finished_signal(); job is the queue
\* position it was emitted for (0 for all_finished)
Ev(kind, job, path, percent, message) ==
    [kind |-> kind, job |-> job, path |-> path, percent |-> percent,
     message |-> message]

Subprocess(job, pass) == [job |-> job, pass |-> pass]

ExitCodes == {0, 1}

\* ffmpeg -version, lines 217-222
VersionChecks == {"ok", "FileNotFoundError", "CalledProcessError"}

\* ffprobe for the duration, lines 357-369: the exception raised, if any,
\* and what float(stdout) gives: a number, or a ValueError for text such as
\* "N/A"
DurationProbe(exc, parses, value) ==
    [exc |-> exc, parses |-> parses, value |-> value]
FailedDurationProbes ==
    {DurationProbe("FileNotFoundError", FALSE, 0),
     DurationProbe("CalledProcessError", FALSE, 0),
     DurationProbe("", FALSE, 0),
     DurationProbe("", TRUE, 0)}

\* the environment of a convert call: what the probes and the encoder do
Environment(versions, probes, outputs, scripts) ==
    [versions |-> versions, probes |-> probes, metadata |-> outputs,
     scripts |-> scripts]

\* ---------------------------------------------------------- Converter API
\* the locals of convert before it runs
ResetLocals(c) ==
    /\ duration' = [duration EXCEPT ![c] = 0]
    /\ bitrate_kbps' = [bitrate_kbps EXCEPT ![c] = None]
    /\ cmd' = [cmd EXCEPT ![c] = <<>>]
    /\ metadata' = [metadata EXCEPT ![c] = None]
    /\ stderr_pipe' = [stderr_pipe EXCEPT ![c] = <<>>]
    /\ returncode' = [returncode EXCEPT ![c] = None]
    /\ pass1_returncode' = [pass1_returncode EXCEPT ![c] = None]

Emit(c, ev) == emitted' = [emitted EXCEPT ![c] = Append(@, ev)]

CurrentJob(c) == conversion_queue[c][idx[c]]

\* Converter.add_file, lines 177-187; callers enqueue before they start the
\* thread
add_file(c, input_path, output_path, audio_settings, resize_settings) ==
    /\ pc[c] = "idle"
    /\ Len(conversion_queue[c]) < MaxJobs
    /\ conversion_queue' =
           [conversion_queue EXCEPT
              ![c] = Append(@, Job(input_path, output_path, audio_settings,
                                   resize_settings))]
    /\ UNCHANGED <<is_stopped, target_size_mb, size_reduction_method_selected,
                   runVars, jobVars, osVars, obsVars, appVars>>

\* Converter.stop, lines 388-392
stop(c) ==
    /\ is_stopped' = [is_stopped EXCEPT ![c] = TRUE]
    /\ stop_seen' =
           [stop_seen EXCEPT
              ![c] = @ \/ (pc[c] # "idle"
                           /\ \A k \in 1..Len(emitted[c]) :
                                  emitted[c][k].kind # "all_finished")]
    /\ UNCHANGED <<conversion_queue, target_size_mb,
                   size_reduction_method_selected, emitted, failed>>

\* QThread.start: run() begins on the worker thread; the observers start
\* afresh for the new run
start(c) ==
    /\ pc[c] = "idle"
    /\ pc' = [pc EXCEPT ![c] = "loop"]
    /\ idx' = [idx EXCEPT ![c] = 1]
    /\ emitted' = [emitted EXCEPT ![c] = <<>>]
    /\ stop_seen' = [stop_seen EXCEPT ![c] = FALSE]
    /\ failed' = [failed EXCEPT ![c] = {}]
    /\ alive' = [alive EXCEPT ![c] = {}]
    /\ term_sent' = [term_sent EXCEPT ![c] = {}]
    /\ UNCHANGED <<convVars, jobVars, appVars>>

\* -------------------------------------------------------- the worker thread
\* Raise with the exception swallowed: no error signal is emitted
Raise_Silent(c, message) ==
    /\ UNCHANGED emitted
    /\ failed' = [failed EXCEPT ![c] = @ \cup {idx[c]}]
    /\ pc' = [pc EXCEPT ![c] = "loop"]
    /\ idx' = [idx EXCEPT ![c] = @ + 1]
    /\ ResetLocals(c)

\* convert, lines 344-345: the message of the exception convert re-raises
ConversionFailed(input_path, message) ==
    "Conversion failed for " \o input_path \o ": " \o message

\* Raise as if run emitted the finished signal in a finally clause: the
\* error signal is followed by the finished signal
Raise_ThenFinished(c, message) ==
    /\ emitted' =
           [emitted EXCEPT
              ![c] = @ \o <<Ev("error", idx[c], CurrentJob(c).input_path, 0,
                                ConversionFailed(CurrentJob(c).input_path,
                                                 message)),
                             Ev("finished", idx[c], CurrentJob(c).input_path,
                                0, "")>>]
    /\ failed' = [failed EXCEPT ![c] = @ \cup {idx[c]}]
    /\ pc' = [pc EXCEPT ![c] = "loop"]
    /\ idx' = [idx EXCEPT ![c] = @ + 1]
    /\ ResetLocals(c)

\* convert, lines 344-345, and run, lines 203-205: convert raised; the error
\* signal is emitted with the wrapped message and the for loop goes on
Raise(c, message) ==
    /\ Emit(c, Ev("error", idx[c], CurrentJob(c).input_path, 0,
                  ConversionFailed(CurrentJob(c).input_path, message)))
    /\ failed' = [failed EXCEPT ![c] = @ \cup {idx[c]}]
    /\ pc' = [pc EXCEPT ![c] = "loop"]
    /\ idx' = [idx EXCEPT ![c] = @ + 1]
    /\ ResetLocals(c)

\* run, line 202: convert returned; the finished signal is emitted and the
\* for loop goes on
Return(c) ==
    /\ Emit(c, Ev("finished", idx[c], CurrentJob(c).input_path, 0, ""))
    /\ UNCHANGED failed
    /\ pc' = [pc EXCEPT ![c] = "loop"]
    /\ idx' = [idx EXCEPT ![c] = @ + 1]
    /\ ResetLocals(c)

\* RunNext without the read of the stop flag
RunNext_NoFlagCheck(c) ==
    /\ pc[c] = "loop"
    /\ pc' = [pc EXCEPT
                ![c] = IF idx[c] > Len(conversion_queue[c]) THEN "final"
                       ELSE "check_ffmpeg"]
    /\ UNCHANGED <<convVars, idx, jobVars, osVars, obsVars, appVars>>

\* run, lines 193-195: the for loop takes the next job, or ends; the stop
\* flag is read before the job is started
RunNext(c) ==
    /\ pc[c] = "loop"
    /\ pc' = [pc EXCEPT
                ![c] = IF idx[c] > Len(conversion_queue[c]) THEN "final"
                       ELSE IF is_stopped[c] THEN "final"
                       ELSE "check_ffmpeg"]
    /\ UNCHANGED <<convVars, idx, jobVars, osVars, obsVars, appVars>>

\* convert, lines 216-222: ffmpeg -version
CheckFfmpeg(c, env) ==
    /\ pc[c] = "check_ffmpeg"
    /\ \E r \in env.versions :
          IF r = "ok"
          THEN /\ pc' = [pc EXCEPT ![c] = "probe_duration"]
               /\ UNCHANGED <<idx, jobVars, emitted, failed>>
          ELSE IF r = "FileNotFoundError"
          THEN Raise(c, "ffmpeg is not installed or not found in system PATH")
          ELSE Raise(c, "Error checking ffmpeg version")
    /\ UNCHANGED <<convVars, osVars, stop_seen, appVars>>

\* get_video_duration, lines 347-369, called at line 225: 0 when ffprobe is
\* missing or exits non-zero, float(stdout) otherwise, which raises
\* ValueError for text that is no number
GetVideoDuration(c, env) ==
    /\ pc[c] = "probe_duration"
    /\ \E r \in env.probes :
          IF r.exc = "" /\ ~r.parses
          THEN Raise(c, "could not convert string to float")
          ELSE /\ duration' = [duration EXCEPT ![c] = IF r.exc # "" THEN 0 ELSE r.value]
               /\ pc' = [pc EXCEPT ![c] = "check_duration"]
               /\ UNCHANGED <<idx, bitrate_kbps, cmd, metadata, stderr_pipe,
                              returncode, pass1_returncode, emitted, failed>>
    /\ UNCHANGED <<convVars, osVars, stop_seen, appVars>>

\* CheckDuration that lets a duration of 0 through
CheckDuration_NoCheck(c) ==
    /\ pc[c] = "check_duration"
    /\ pc' = [pc EXCEPT ![c] = "build"]
    /\ UNCHANGED <<convVars, idx, jobVars, osVars, obsVars, appVars>>

\* convert, lines 226-227
CheckDuration(c) ==
    /\ pc[c] = "check_duration"
    /\ IF duration[c] = 0
       THEN Raise(c, "Could not determine video duration")
       ELSE /\ pc' = [pc EXCEPT ![c] = "build"]
            /\ UNCHANGED <<idx, jobVars, emitted, failed>>
    /\ UNCHANGED <<convVars, osVars, stop_seen, appVars>>

\* convert, lines 255-311 once no first pass is pending: the rest of the
\* command, the audio substitution and Popen of the main encoder; others is
\* the set of this run's subprocesses that are still alive
BuildAndLaunch(c, env, others, rc1) ==
    LET job == CurrentJob(c)
        target == target_size_mb[c]
        method == size_reduction_method_selected[c]
        v == VideoArgs(job.resize_settings, target, method, duration[c])
    IN
    IF v.raises
    THEN /\ Raise(c, "local variable 'bitrate_kbps' referenced before assignment")
         /\ alive' = [alive EXCEPT ![c] = others]
    ELSE \E probe \in IF job.audio_settings = AudioCopy
                      THEN env.metadata ELSE {ProbeFailed} :
         \E script \in env.scripts :
            /\ cmd' = [cmd EXCEPT
                         ![c] = BuildCommand(job, target, method, duration[c], probe)]
            /\ metadata' =
                   [metadata EXCEPT
                      ![c] = IF job.audio_settings = AudioCopy
                             THEN Some(probe) ELSE None]
            /\ bitrate_kbps' =
                   [bitrate_kbps EXCEPT
                      ![c] = BitrateOf(job.resize_settings, target, method,
                                       duration[c])]
            /\ alive' = [alive EXCEPT ![c] = others \cup {Subprocess(idx[c], 2)}]
            /\ stderr_pipe' = [stderr_pipe EXCEPT ![c] = script]
            /\ pass1_returncode' = [pass1_returncode EXCEPT ![c] = rc1]
            /\ pc' = [pc EXCEPT ![c] = "mon_check"]
            /\ UNCHANGED <<idx, duration, returncode, emitted, failed>>

\* PrepareCommand that stores the audio arguments it settled on back into
\* the queued job
PrepareCommand_WritesBack(c, env) ==
    /\ pc[c] = "build"
    /\ IF NeedsFirstPass(CurrentJob(c).resize_settings, target_size_mb[c],
                         size_reduction_method_selected[c])
       THEN /\ alive' = [alive EXCEPT ![c] = @ \cup {Subprocess(idx[c], 1)}]
            /\ pc' = [pc EXCEPT ![c] = "first_pass"]
            /\ UNCHANGED <<idx, jobVars, emitted, failed, conversion_queue>>
       ELSE /\ BuildAndLaunch(c, env, alive[c], None)
            /\ conversion_queue' =
                   [conversion_queue EXCEPT
                      ![c][idx[c]].audio_settings =
                          IF metadata'[c] = None THEN @
                          ELSE AudioArgs(@, CurrentJob(c).resize_settings,
                                         metadata'[c][1])]
    /\ UNCHANGED <<is_stopped, target_size_mb, size_reduction_method_selected,
                   term_sent, stop_seen, appVars>>

\* convert, lines 229-311: build the command; in two-pass mode start the
\* blocking first-pass run (lines 253 / 282)
PrepareCommand(c, env) ==
    /\ pc[c] = "build"
    /\ IF NeedsFirstPass(CurrentJob(c).resize_settings, target_size_mb[c],
                         size_reduction_method_selected[c])
       THEN /\ alive' = [alive EXCEPT ![c] = @ \cup {Subprocess(idx[c], 1)}]
            /\ pc' = [pc EXCEPT ![c] = "first_pass"]
            /\ UNCHANGED <<idx, jobVars, emitted, failed>>
       ELSE BuildAndLaunch(c, env, alive[c], None)
    /\ UNCHANGED <<convVars, term_sent, stop_seen, appVars>>

\* FirstPassExit that reads the stop flag when the first pass has exited and
\* gives the job up instead of launching the main encoder
FirstPassExit_ChecksFlag(c, env) ==
    /\ pc[c] = "first_pass"
    /\ \E rc \in ExitCodes :
          LET others == alive[c] \ {Subprocess(idx[c], 1)} IN
          IF rc # 0
          THEN /\ Raise(c, "Command returned non-zero exit status")
               /\ alive' = [alive EXCEPT ![c] = others]
          ELSE IF is_stopped[c]
          THEN /\ Return(c)
               /\ alive' = [alive EXCEPT ![c] = others]
          ELSE BuildAndLaunch(c, env, others, Some(rc))
    /\ UNCHANGED <<convVars, term_sent, stop_seen, appVars>>

\* FirstPassExit as with check=False: the exit status of the first pass is
\* not looked at
FirstPassExit_IgnoreExitCode(c, env) ==
    /\ pc[c] = "first_pass"
    /\ \E rc \in ExitCodes :
          BuildAndLaunch(c, env, alive[c] \ {Subprocess(idx[c], 1)}, Some(rc))
    /\ UNCHANGED <<convVars, term_sent, stop_seen, appVars>>

\* convert, lines 253 / 282: subprocess.run(cmd_pass1, check=True) returns
\* or raises CalledProcessError once the first pass has exited
FirstPassExit(c, env) ==
    /\ pc[c] = "first_pass"
    /\ \E rc \in ExitCodes :
          LET others == alive[c] \ {Subprocess(idx[c], 1)} IN
          IF rc # 0
          THEN /\ Raise(c, "Command returned non-zero exit status")
               /\ alive' = [alive EXCEPT ![c] = others]
          ELSE BuildAndLaunch(c, env, others, Some(rc))
    /\ UNCHANGED <<convVars, term_sent, stop_seen, appVars>>

\* MonitorCheck that leaves the loop without terminating the encoder
MonitorCheck_NoTerminate(c) ==
    /\ pc[c] = "mon_check"
    /\ pc' = [pc EXCEPT ![c] = IF is_stopped[c] THEN "post" ELSE "mon_read"]
    /\ UNCHANGED <<convVars, idx, jobVars, osVars, obsVars, appVars>>

\* convert, lines 316-320: the stop flag is read at the top of every
\* iteration of the monitoring loop
MonitorCheck(c) ==
    /\ pc[c] = "mon_check"
    /\ IF is_stopped[c]
       THEN /\ term_sent' = [term_sent EXCEPT ![c] = @ \cup {Subprocess(idx[c], 2)}]
            /\ pc' = [pc EXCEPT ![c] = "post"]
       ELSE /\ pc' = [pc EXCEPT ![c] = "mon_read"]
            /\ UNCHANGED term_sent
    /\ UNCHANGED <<convVars, idx, jobVars, alive, obsVars, appVars>>

\* MonitorRead that leaves the loop when readline returns '', without
\* waiting for poll() to report the exit
MonitorRead_BreakOnEof(c) ==
    /\ pc[c] = "mon_read"
    /\ IF stderr_pipe[c] = <<>>
       THEN /\ pc' = [pc EXCEPT ![c] = "post"]
            /\ UNCHANGED <<stderr_pipe, emitted>>
       ELSE /\ stderr_pipe' = [stderr_pipe EXCEPT ![c] = Tail(@)]
            /\ pc' = [pc EXCEPT ![c] = "mon_check"]
            /\ LET signal == ProgressSignal(Head(stderr_pipe[c]), duration[c]) IN
               IF signal # None
               THEN Emit(c, Ev("progress", idx[c], CurrentJob(c).input_path,
                               signal[1], ""))
               ELSE UNCHANGED emitted
    /\ UNCHANGED <<convVars, idx, duration, bitrate_kbps, cmd, metadata, returncode,
                   pass1_returncode,
                   osVars, stop_seen, failed, appVars>>

\* MonitorRead that takes two lines from the pipe in one iteration
MonitorRead_TwoLines(c) ==
    /\ pc[c] = "mon_read"
    /\ IF Len(stderr_pipe[c]) < 2
       THEN UNCHANGED <<stderr_pipe, emitted>>
       ELSE /\ stderr_pipe' = [stderr_pipe EXCEPT ![c] = Tail(Tail(@))]
            /\ LET first == ProgressSignal(stderr_pipe[c][1], duration[c])
                   second == ProgressSignal(stderr_pipe[c][2], duration[c])
                   Signals(sig) ==
                       IF sig = None THEN <<>>
                       ELSE <<Ev("progress", idx[c], CurrentJob(c).input_path,
                                 sig[1], "")>>
               IN  emitted' = [emitted EXCEPT
                                 ![c] = @ \o Signals(first) \o Signals(second)]
    /\ \/ /\ pc' = [pc EXCEPT ![c] = "mon_check"]
          /\ UNCHANGED <<returncode, alive, failed>>
       \/ \E rc \in ExitCodes :
             /\ returncode' = [returncode EXCEPT ![c] = Some(rc)]
             /\ failed' = [failed EXCEPT ![c] = IF rc # 0 THEN @ \cup {idx[c]} ELSE @]
             /\ alive' = [alive EXCEPT ![c] = @ \ {Subprocess(idx[c], 2)}]
             /\ pc' = [pc EXCEPT ![c] = "post"]
    /\ UNCHANGED <<convVars, idx, duration, bitrate_kbps, cmd, metadata, term_sent,
                   pass1_returncode,
                   stop_seen, appVars>>

\* MonitorRead without the poll() of line 333: the loop is left only when
\* the stop flag is read as set
MonitorRead_NoPoll(c) ==
    /\ pc[c] = "mon_read"
    /\ IF stderr_pipe[c] = <<>>
       THEN UNCHANGED <<stderr_pipe, emitted>>
       ELSE /\ stderr_pipe' = [stderr_pipe EXCEPT ![c] = Tail(@)]
            /\ LET signal == ProgressSignal(Head(stderr_pipe[c]), duration[c]) IN
               IF signal # None
               THEN Emit(c, Ev("progress", idx[c], CurrentJob(c).input_path,
                               signal[1], ""))
               ELSE UNCHANGED emitted
    /\ pc' = [pc EXCEPT ![c] = "mon_check"]
    /\ UNCHANGED <<convVars, idx, duration, bitrate_kbps, cmd, metadata, returncode,
                   pass1_returncode, osVars, stop_seen, failed, appVars>>

\* convert, lines 324-334: one readline (the next line, or '' at end of
\* file), the progress signal, and poll()
MonitorRead(c) ==
    /\ pc[c] = "mon_read"
    /\ IF stderr_pipe[c] = <<>>
       THEN UNCHANGED <<stderr_pipe, emitted>>
       ELSE /\ stderr_pipe' = [stderr_pipe EXCEPT ![c] = Tail(@)]
            /\ LET signal == ProgressSignal(Head(stderr_pipe[c]), duration[c]) IN
               IF signal # None
               THEN Emit(c, Ev("progress", idx[c], CurrentJob(c).input_path,
                               signal[1], ""))
               ELSE UNCHANGED emitted
    /\ \/ \* process.poll() is None
          /\ pc' = [pc EXCEPT ![c] = "mon_check"]
          /\ UNCHANGED <<returncode, alive, failed>>
       \/ \E rc \in ExitCodes :
             /\ returncode' = [returncode EXCEPT ![c] = Some(rc)]
             /\ failed' = [failed EXCEPT ![c] = IF rc # 0 THEN @ \cup {idx[c]} ELSE @]
             /\ alive' = [alive EXCEPT ![c] = @ \ {Subprocess(idx[c], 2)}]
             /\ pc' = [pc EXCEPT ![c] = "post"]
    /\ UNCHANGED <<convVars, idx, duration, bitrate_kbps, cmd, metadata, term_sent,
                   pass1_returncode,
                   stop_seen, appVars>>

\* CheckResult that treats every exit as a failure
CheckResult_AlwaysRaise(c) ==
    /\ pc[c] = "post"
    /\ Raise(c, "FFmpeg error")
    /\ UNCHANGED <<convVars, osVars, stop_seen, appVars>>

\* CheckResult that does not look at the exit code
CheckResult_IgnoreExitCode(c) ==
    /\ pc[c] = "post"
    /\ Return(c)
    /\ UNCHANGED <<convVars, osVars, stop_seen, appVars>>

\* convert, lines 336-345, and run, lines 202-205: the exit code decides
\* between the error and the finished signal, unless the stop flag is set
CheckResult(c) ==
    /\ pc[c] = "post"
    /\ IF returncode[c] # Some(0) /\ ~is_stopped[c]
       THEN Raise(c, "FFmpeg error")
       ELSE Return(c)
    /\ UNCHANGED <<convVars, osVars, stop_seen, appVars>>

\* run, line 207
FinalCheck(c) ==
    /\ pc[c] = "final"
    /\ pc' = [pc EXCEPT ![c] = IF ~is_stopped[c] THEN "emit_all" ELSE "reset"]
    /\ UNCHANGED <<convVars, idx, jobVars, osVars, obsVars, appVars>>

\* run, line 208
EmitAllFinished(c) ==
    /\ pc[c] = "emit_all"
    /\ Emit(c, Ev("all_finished", 0, "", 0, ""))
    /\ pc' = [pc EXCEPT ![c] = "reset"]
    /\ UNCHANGED <<convVars, idx, jobVars, osVars, stop_seen, failed, appVars>>

\* run, line 209: the flag is reset and run returns; the thread ends
ResetFlag(c) ==
    /\ pc[c] = "reset"
    /\ is_stopped' = [is_stopped EXCEPT ![c] = FALSE]
    /\ pc' = [pc EXCEPT ![c] = "idle"]
    /\ UNCHANGED <<conversion_queue, target_size_mb,
                   size_reduction_method_selected, idx, jobVars, osVars,
                   obsVars, appVars>>

\* the operating system: a process that was sent terminate() exits
ProcessDies(c) ==
    /\ \E p \in term_sent[c] \cap alive[c] :
          alive' = [alive EXCEPT ![c] = @ \ {p}]
    /\ UNCHANGED <<convVars, runVars, jobVars, term_sent, obsVars, appVars>>

\* the selectable entries of aspect_ratio_dropdown, line 692
PadMode == "Maintain Aspect Ratio (Black Bars)"
CropMode == "Crop to Fit"
AspectModes == {PadMode, CropMode}

\* the state of the resize widgets, lines 673-698
ResizeWidgets(width, height, mode, upscaling) ==
    [width_input |-> width, height_input |-> height,
     aspect_ratio_dropdown |-> mode, allow_upscaling_checkbox |-> upscaling]

\* VideoConverter.__init__ / init_ui: the file list, the metadata cache and the
\* metadata table start empty, so are the width and height fields; the first
\* aspect mode is selected and upscaling is not allowed
InitList ==
    /\ file_list = <<>>
    /\ metadata_cache = {}
    /\ metadata_table = <<>>
    /\ resize_widgets = ResizeWidgets("", "", PadMode, FALSE)
    /\ escaped = FALSE

\* ----------------------------------------------- one Converter, used directly
\* Converter.__init__, lines 164-175, for every instance; instance 1 with
\* the target size and the method its creator gives it
InitConverters(targets, methods) ==
    /\ \E target \in targets, method \in methods :
          /\ target_size_mb = [c \in Converters |-> IF c = 1 THEN target ELSE None]
          /\ size_reduction_method_selected =
                 [c \in Converters |-> IF c = 1 THEN method ELSE SinglePass]
    /\ conversion_queue = [c \in Converters |-> <<>>]
    /\ is_stopped = [c \in Converters |-> FALSE]
    /\ pc = [c \in Converters |-> "idle"]
    /\ idx = [c \in Converters |-> 0]
    /\ duration = [c \in Converters |-> 0]
    /\ bitrate_kbps = [c \in Converters |-> None]
    /\ cmd = [c \in Converters |-> <<>>]
    /\ metadata = [c \in Converters |-> None]
    /\ stderr_pipe = [c \in Converters |-> <<>>]
    /\ returncode = [c \in Converters |-> None]
    /\ pass1_returncode = [c \in Converters |-> None]
    /\ alive = [c \in Converters |-> {}]
    /\ term_sent = [c \in Converters |-> {}]
    /\ emitted = [c \in Converters |-> <<>>]
    /\ stop_seen = [c \in Converters |-> FALSE]
    /\ failed = [c \in Converters |-> {}]

\* the environment of a batch: every failure of the tools, files of one
\* duration whose audio stream has a codec name or none, encoders that
\* report progress or nothing
BatchEnv ==
    Environment(VersionChecks,
                FailedDurationProbes
                    \cup {DurationProbe("", TRUE, d) : d \in BatchDurations},
                {ProbeVideoAudio, ProbeUnnamedAudio},
                {NoOutput, SteadyProgress, NoTimestamps})

Init ==
    /\ InitConverters({None, Some(10)}, Methods)
    /\ current_converter = 0
    /\ created = 1
    /\ start_enabled = TRUE
    /\ cancel_enabled = FALSE
    /\ delivered = [c \in Converters |-> 0]
    /\ InitList

AddFile ==
    \E k \in JobKinds :
        LET i == Len(conversion_queue[1]) + 1 IN
        add_file(1, InputPath(i), OutputPath(i), k[1], k[2])
Start == start(1)
Stop == stop(1) /\ UNCHANGED <<runVars, jobVars, osVars, appVars>>

Next ==
    \/ AddFile
    \/ Start
    \/ Stop
    \/ RunNext(1)
    \/ CheckFfmpeg(1, BatchEnv)
    \/ GetVideoDuration(1, BatchEnv)
    \/ CheckDuration(1)
    \/ PrepareCommand(1, BatchEnv)
    \/ FirstPassExit(1, BatchEnv)
    \/ MonitorCheck(1)
    \/ MonitorRead(1)
    \/ CheckResult(1)
    \/ FinalCheck(1)
    \/ EmitAllFinished(1)
    \/ ResetFlag(1)
    \/ ProcessDies(1)

Spec == Init /\ [][Next]_vars

\* the environment of the runs whose termination is examined: every failure
\* of the tools, encoders that report progress once
LiveEnv ==
    Environment(VersionChecks,
                FailedDurationProbes
                    \cup {DurationProbe("", TRUE, d) : d \in BatchDurations},
                {ProbeVideoAudio},
                {<<LineT45>>})

LiveNext ==
    \/ AddFile
    \/ Start
    \/ Stop
    \/ RunNext(1)
    \/ CheckFfmpeg(1, LiveEnv)
    \/ GetVideoDuration(1, LiveEnv)
    \/ CheckDuration(1)
    \/ PrepareCommand(1, LiveEnv)
    \/ FirstPassExit(1, LiveEnv)
    \/ MonitorCheck(1)
    \/ MonitorRead(1)
    \/ CheckResult(1)
    \/ FinalCheck(1)
    \/ EmitAllFinished(1)
    \/ ResetFlag(1)
    \/ ProcessDies(1)

\* the worker thread is scheduled, every blocking call it makes returns
\* (ffmpeg -version, ffprobe, the first pass, readline), and the main encoder
\* exits at some time: some poll() of the monitoring loop reports its exit
Fairness ==
    /\ WF_vars(RunNext(1))
    /\ WF_vars(CheckFfmpeg(1, LiveEnv))
    /\ WF_vars(GetVideoDuration(1, LiveEnv))
    /\ WF_vars(CheckDuration(1))
    /\ WF_vars(PrepareCommand(1, LiveEnv))
    /\ WF_vars(FirstPassExit(1, LiveEnv))
    /\ WF_vars(MonitorCheck(1))
    /\ WF_vars(MonitorRead(1))
    /\ SF_vars(MonitorRead(1) /\ pc'[1] = "post")
    /\ WF_vars(CheckResult(1))
    /\ WF_vars(FinalCheck(1))
    /\ WF_vars(EmitAllFinished(1))
    /\ WF_vars(ResetFlag(1))

LiveSpec == Init /\ [][LiveNext]_vars /\ Fairness


\* ------------------------------------------------ one convert call, any input
\* the environment of a single conversion: every failure of the tools, files
\* of every duration, every kind of stderr output
ConvertEnv ==
    Environment(VersionChecks,
                FailedDurationProbes
                    \cup {DurationProbe("", TRUE, d) : d \in Durations},
                FfprobeOutputs,
                {NoOutput, SteadyProgress, BackwardsProgress, NoTimestamps,
                 GarbledOutput})

ConvertInit ==
    /\ InitConverters({None} \cup {Some(t) : t \in TargetSizes}, Methods)
    /\ current_converter = 0
    /\ created = 1
    /\ start_enabled = TRUE
    /\ cancel_enabled = FALSE
    /\ delivered = [c \in Converters |-> 0]
    /\ InitList

\* one job with any audio and resize settings
EnqueueOne ==
    /\ conversion_queue[1] = <<>>
    /\ \E a \in AudioChoices, r \in ResizeChoices :
          add_file(1, InputPath(1), OutputPath(1), a, r)

StartOnce ==
    /\ conversion_queue[1] # <<>>
    /\ idx[1] = 0
    /\ start(1)

ConvertNext ==
    \/ EnqueueOne
    \/ StartOnce
    \/ RunNext(1)
    \/ CheckFfmpeg(1, ConvertEnv)
    \/ GetVideoDuration(1, ConvertEnv)
    \/ CheckDuration(1)
    \/ PrepareCommand(1, ConvertEnv)
    \/ FirstPassExit(1, ConvertEnv)
    \/ MonitorCheck(1)
    \/ MonitorRead(1)
    \/ CheckResult(1)
    \/ FinalCheck(1)
    \/ EmitAllFinished(1)
    \/ ResetFlag(1)

ConvertSpec == ConvertInit /\ [][ConvertNext]_vars

\* ------------------------------------------------------- the main window
\* the files the user can pick, the chosen output directory and format, and
\* the date
ClipA == File("/videos", "clip", "mov")
ClipB == File("/holiday", "clip", "mov")
FileLists == {<<ClipA>>}
TargetDirs == {"/out"}
TargetFormats == {"mp4"}
CurrentDate == "2025-01-01"
\* target_size_slider.value() when the size control is enabled
SliderValues == {10}

\* float(text) for the texts a bit_rate entry can hold: None for ValueError
BitRates == {1200000}
FloatText(text) ==
    IF \E n \in BitRates : ToString(n) = text
    THEN Some(CHOOSE n \in BitRates : ToString(n) = text)
    ELSE None

\* VideoMetadata.fetch_metadata, lines 66-71: video_codec after the loop
RECURSIVE VideoCodecOf(_, _)
VideoCodecOf(streams, acc) ==
    IF streams = <<>> THEN acc
    ELSE LET s == Head(streams) IN
         VideoCodecOf(Tail(streams),
                      IF s.codec_type = "video"
                      THEN IF s.codec_name = None THEN "N/A" ELSE s.codec_name[1]
                      ELSE acc)

\* VideoMetadata.__init__ and fetch_metadata, lines 26-73: the attributes the
\* main window reads (filesize and resolution are left out); when the probe
\* fails they keep the values __init__ gave them
VideoMetadata(file, probe) ==
    [filename |-> file.stem \o "." \o file.ext,
     duration |-> IF probe.ok /\ probe.format.duration # None
                  THEN probe.format.duration[1] ELSE 0,
     bitrate |-> IF ~probe.ok THEN ""
                 ELSE IF probe.format.bit_rate = None THEN "N/A"
                 ELSE ToString(probe.format.bit_rate[1]),
     video_codec |-> IF probe.ok THEN VideoCodecOf(probe.streams, "") ELSE "",
     audio_codec |-> audio_codec(probe)]

Pad2(n) == IF n < 10 THEN "0" \o ToString(n) ELSE ToString(n)

\* VideoMetadata.format_duration, lines 88-98, for a duration in centiseconds
format_duration(dur) ==
    LET seconds == dur \div 100 IN
    Pad2(seconds \div 3600) \o ":" \o Pad2((seconds % 3600) \div 60) \o ":"
    \o Pad2(seconds % 60)

\* add_metadata, lines 783-788: the cells set before the bitrate cell (the
\* size and resolution cells are left out)
FirstCells(md) ==
    <<md.filename, format_duration(md.duration), md.video_codec, md.audio_codec>>

\* add_metadata, lines 789-790: the text of the bitrate cell, None when
\* float(metadata.bitrate) raises ValueError
BitrateCell(md) ==
    IF md.bitrate = "N/A" THEN Some("N/A kbps")
    ELSE IF FloatText(md.bitrate) = None THEN None
    ELSE Some(ToString(IntTrunc(FloatText(md.bitrate)[1], 1000)) \o " kbps")

\* the widgets add_files works on
ListState(list, cache, table, raised) ==
    [list |-> list, cache |-> cache, table |-> table, raised |-> raised]

\* VideoConverter.add_metadata, lines 767-790: the file is cached, a row is
\* inserted and filled cell by cell; the bitrate cell is the last one
add_metadata(st, file, probe) ==
    IF file \in st.cache THEN st
    ELSE LET md == VideoMetadata(file, probe)
             cell == BitrateCell(md)
         IN  IF cell = None
             THEN ListState(st.list, st.cache \cup {file},
                            Append(st.table, FirstCells(md)), TRUE)
             ELSE ListState(st.list, st.cache \cup {file},
                            Append(st.table, FirstCells(md) \o <<cell[1]>>), FALSE)

\* add_files, lines 762-765: the loop over new_files, left when add_metadata
\* raises
RECURSIVE AddEach(_, _, _)
AddEach(st, new_files, probes) ==
    IF new_files = <<>> \/ st.raised THEN st
    ELSE AddEach(add_metadata(ListState(Append(st.list, Head(new_files)),
                                        st.cache, st.table, FALSE),
                              Head(new_files), Head(probes)),
                 Tail(new_files), Tail(probes))

\* the positions of files whose file is not yet an item of the list
NewPositions(files) ==
    {i \in 1..Len(files) : \A k \in 1..Len(file_list) : file_list[k] # files[i]}

RECURSIVE Pick(_, _, _)
Pick(seq, positions, i) ==
    IF i > Len(seq) THEN <<>>
    ELSE (IF i \in positions THEN <<seq[i]>> ELSE <<>>) \o Pick(seq, positions, i + 1)

\* VideoConverter.add_files, lines 749-765 (from the dialog, the menu or a
\* drop); probes[i] is what ffprobe gives when files[i] is examined.  An
\* exception that leaves the handler is not caught anywhere: the application
\* is aborted
add_files(files, probes) ==
    /\ ~escaped
    /\ files # <<>>
    /\ LET new == NewPositions(files)
           st == AddEach(ListState(file_list, metadata_cache, metadata_table, FALSE),
                         Pick(files, new, 1), Pick(probes, new, 1))
       IN  /\ file_list' = st.list
           /\ metadata_cache' = st.cache
           /\ metadata_table' = st.table
           /\ escaped' = st.raised
    /\ UNCHANGED <<convVars, runVars, jobVars, osVars, obsVars,
                   current_converter, created, start_enabled, cancel_enabled,
                   delivered, resize_widgets>>

\* VideoConverter.clear_files, lines 741-747, from the Clear button
clear_files ==
    /\ start_enabled /\ ~escaped
    /\ file_list' = <<>>
    /\ metadata_cache' = {}
    /\ metadata_table' = <<>>
    /\ UNCHANGED <<convVars, runVars, jobVars, osVars, obsVars,
                   current_converter, created, start_enabled, cancel_enabled,
                   delivered, resize_widgets, escaped>>

\* the pixel sizes the width and height fields are filled with
PixelSizes == {1280, 720}
WidthTexts == {"", "Original", "1280"}
HeightTexts == {"", "720"}

\* int(text), lines 913-914: None for ValueError
IntText(text) ==
    IF \E n \in PixelSizes : ToString(n) = text
    THEN Some(CHOOSE n \in PixelSizes : ToString(n) = text)
    ELSE None

\* the ffprobe call for the original dimensions, lines 920-932: whether it
\* gave a WIDTHxHEIGHT line
DimensionProbes == BOOLEAN

\* get_resize_settings, lines 944 and 948: the scale filter
ScaleFilter(target_width, target_height, force_original_aspect_ratio) ==
    "scale=" \o ToString(target_width) \o ":" \o ToString(target_height)
        \o ":force_original_aspect_ratio=" \o force_original_aspect_ratio

\* get_resize_settings, line 945
PaddingFilter(target_width, target_height) ==
    "pad=" \o ToString(target_width) \o ":" \o ToString(target_height)
        \o ":(ow-iw)/2:(oh-ih)/2:color=black"

\* get_resize_settings, line 949
CropFilter(target_width, target_height) ==
    "crop=" \o ToString(target_width) \o ":" \o ToString(target_height)

\* VideoConverter.get_resize_settings, lines 894-959: [] when a field is
\* empty or no integer or the dimensions cannot be read, else the one filter
get_resize_settings(widgets, dimensions_read) ==
    LET target_width == IntText(widgets.width_input)
        target_height == IntText(widgets.height_input)
        force_original_aspect_ratio ==
            IF widgets.allow_upscaling_checkbox THEN "increase" ELSE "decrease"
    IN
    IF widgets.width_input = "" \/ widgets.height_input = "" THEN <<>>
    ELSE IF target_width = None \/ target_height = None THEN <<>>
    ELSE IF ~dimensions_read THEN <<>>
    ELSE IF widgets.aspect_ratio_dropdown = PadMode
    THEN <<ScaleFilter(target_width[1], target_height[1],
                       force_original_aspect_ratio)
           \o "," \o PaddingFilter(target_width[1], target_height[1])>>
    ELSE IF widgets.aspect_ratio_dropdown = CropMode
    THEN <<ScaleFilter(target_width[1], target_height[1], "increase")
           \o "," \o CropFilter(target_width[1], target_height[1])>>
    ELSE <<>>

\* the user edits the resize widgets; they are disabled by toggle_ui(False),
\* lines 1052-1056
set_resize_widgets(widgets) ==
    /\ start_enabled /\ ~escaped
    /\ resize_widgets' = widgets
    /\ UNCHANGED <<convVars, runVars, jobVars, osVars, obsVars,
                   current_converter, created, start_enabled, cancel_enabled,
                   delivered, file_list, metadata_cache, metadata_table,
                   escaped>>

\* start_conversion, lines 994-1000: <target_dir>/<stem>_<date>.<format>
OutputPathFor(file, target_dir, target_format) ==
    PathStr(File(target_dir, file.stem \o "_" \o CurrentDate, target_format))

\* VideoConverter.start_conversion, lines 961-1020, when the Start button can
\* be pressed, the list is not empty and a directory is chosen: the UI is
\* disabled, a new Converter is built and filled, and its thread is started
start_conversion(files, target_dir, target_format, enable_size_control, slider, method, audio_settings, resizes) ==
    /\ start_enabled /\ ~escaped
    /\ files = file_list
    /\ files # <<>>
    /\ target_dir # ""
    /\ Len(files) <= MaxJobs
    /\ created < MaxConverters
    /\ LET c == created + 1 IN
       /\ created' = c
       /\ current_converter' = c
       /\ start_enabled' = FALSE
       /\ cancel_enabled' = TRUE
       /\ target_size_mb' =
              [target_size_mb EXCEPT
                 ![c] = IF enable_size_control THEN Some(slider) ELSE None]
       /\ size_reduction_method_selected' =
              [size_reduction_method_selected EXCEPT
                 ![c] = IF enable_size_control THEN method ELSE SinglePass]
       /\ conversion_queue' =
              [conversion_queue EXCEPT
                 ![c] = [i \in 1..Len(files) |->
                            Job(PathStr(files[i]),
                                OutputPathFor(files[i], target_dir,
                                              target_format),
                                audio_settings, resizes[i])]]
       /\ pc' = [pc EXCEPT ![c] = "loop"]
       /\ idx' = [idx EXCEPT ![c] = 1]
    /\ UNCHANGED <<is_stopped, jobVars, osVars, obsVars, delivered, listVars>>

\* VideoConverter.cancel_conversion, lines 1023-1032, when the Cancel button
\* can be pressed: it returns without waiting for the worker thread
cancel_conversion ==
    /\ cancel_enabled /\ ~escaped
    /\ IF current_converter # 0
       THEN /\ stop(current_converter)
            /\ current_converter' = 0
            /\ start_enabled' = TRUE
            /\ cancel_enabled' = FALSE
            /\ UNCHANGED <<created, delivered, listVars>>
       ELSE UNCHANGED <<convVars, obsVars, appVars>>
    /\ UNCHANGED <<runVars, jobVars, osVars>>

\* the main thread's event loop runs the slot connected to the next signal of
\* a Converter (lines 1014-1017); update_progress, finish_conversion and
\* error_conversion touch widgets only, all_conversions_finished (lines
\* 1097-1104) re-enables the UI
DeliverSignal(c) ==
    /\ delivered[c] < Len(emitted[c])
    /\ delivered' = [delivered EXCEPT ![c] = @ + 1]
    /\ IF emitted[c][delivered[c] + 1].kind = "all_finished"
       THEN start_enabled' = TRUE /\ cancel_enabled' = FALSE
       ELSE UNCHANGED <<start_enabled, cancel_enabled>>
    /\ UNCHANGED <<convVars, runVars, jobVars, osVars, obsVars,
                   current_converter, created, listVars>>

\* the environment of the application's batches: the tools work and the
\* encoder reports progress once
AppEnv ==
    Environment({"ok"},
                {DurationProbe("", TRUE, d) : d \in BatchDurations},
                {ProbeVideoAudio},
                {<<LineT45>>})

\* VideoConverter.__init__, lines 399-430: no Converter exists yet
AppInit ==
    /\ InitConverters({None}, {SinglePass})
    /\ current_converter = 0
    /\ created = 0
    /\ start_enabled = TRUE
    /\ cancel_enabled = FALSE
    /\ delivered = [c \in Converters |-> 0]
    /\ InitList

\* the user presses Start: size control on or off, either method, audio
\* copied; get_resize_settings reads the resize widgets for every file
StartConversion ==
    \E target_dir \in TargetDirs,
       target_format \in TargetFormats, enable_size_control \in BOOLEAN,
       slider \in SliderValues, method \in Methods,
       audio_settings \in {AudioCopy} :
       \E dimensions \in [1..Len(file_list) -> DimensionProbes] :
          start_conversion(file_list, target_dir, target_format,
                           enable_size_control, slider, method,
                           audio_settings,
                           [i \in 1..Len(file_list) |->
                               get_resize_settings(resize_widgets,
                                                   dimensions[i])])

\* the user adds the one clip; ffprobe describes it
AddClip ==
    \E files \in FileLists :
        add_files(files, [i \in 1..Len(files) |-> ProbeVideoAudio])

\* the user presses Cancel
CancelConversion == cancel_conversion

AppNext ==
    \/ AddClip
    \/ StartConversion
    \/ CancelConversion
    \/ \E c \in Converters : DeliverSignal(c)
    \/ \E c \in Converters : RunNext(c)
    \/ \E c \in Converters : CheckFfmpeg(c, AppEnv)
    \/ \E c \in Converters : GetVideoDuration(c, AppEnv)
    \/ \E c \in Converters : CheckDuration(c)
    \/ \E c \in Converters : PrepareCommand(c, AppEnv)
    \/ \E c \in Converters : FirstPassExit(c, AppEnv)
    \/ \E c \in Converters : MonitorCheck(c)
    \/ \E c \in Converters : MonitorRead(c)
    \/ \E c \in Converters : CheckResult(c)
    \/ \E c \in Converters : FinalCheck(c)
    \/ \E c \in Converters : EmitAllFinished(c)
    \/ \E c \in Converters : ResetFlag(c)
    \/ \E c \in Converters : ProcessDies(c)

AppSpec == AppInit /\ [][AppNext]_vars

\* ------------------------------------- the main window's file list handlers
\* what the user hands to add_files in one call (a path can be passed twice),
\* and what ffprobe says about a file
FileSelections == {<<ClipA>>, <<ClipB>>, <<ClipA, ClipB>>, <<ClipA, ClipA>>}
ListingProbes == {ProbeFailed, ProbeVideoAudio, ProbeNoFormat}

AddFiles ==
    \E files \in FileSelections :
       \E probes \in [1..Len(files) -> ListingProbes] : add_files(files, probes)

ClearFiles == clear_files

\* the user fills the width and height fields, picks the aspect mode and
\* ticks or clears the upscaling box
SetResizeWidgets ==
    \E width \in WidthTexts, height \in HeightTexts, mode \in AspectModes,
       upscaling \in BOOLEAN :
       set_resize_widgets(ResizeWidgets(width, height, mode, upscaling))

\* the handlers of the main window alone: the worker threads are not scheduled
FilesNext ==
    \/ AddFiles
    \/ ClearFiles
    \/ SetResizeWidgets
    \/ StartConversion

FilesSpec == AppInit /\ [][FilesNext]_vars

\* ------------------------------------------------------------ properties
Positions(c) == 1..Len(emitted[c])
IsTerminal(e) == e.kind \in {"finished", "error"}
EventsOf(c, kind, j) ==
    {k \in Positions(c) : emitted[c][k].kind = kind /\ emitted[c][k].job = j}
TerminalsOf(c, j) == EventsOf(c, "finished", j) \cup EventsOf(c, "error", j)
AllFinished(c) == {k \in Positions(c) : emitted[c][k].kind = "all_finished"}
InConvert(c) ==
    pc[c] \in {"check_ffmpeg", "probe_duration", "check_duration", "build",
               "first_pass",
               "mon_check", "mon_read", "post"}

\* C1: at the end of a run during which the stop flag was never set, every
\* job that failed has exactly one error signal, every job of the queue was
\* attempted (has a terminal signal), and all_finished was emitted exactly
\* once, as the last signal of the run.
C1_FailuresDoNotHaltBatch ==
    \A c \in Converters :
        (pc[c] = "reset" /\ ~is_stopped[c]) =>
            /\ \A j \in failed[c] : Cardinality(EventsOf(c, "error", j)) = 1
            /\ \A j \in 1..Len(conversion_queue[c]) : TerminalsOf(c, j) # {}
            /\ AllFinished(c) = {Len(emitted[c])}

\* a run of two jobs without cancellation has ended: the first job failed,
\* the second was still converted and all_finished was emitted
C1_Witness ==
    /\ pc[1] = "reset" /\ ~is_stopped[1]
    /\ Len(conversion_queue[1]) = 2
    /\ failed[1] = {1}
    /\ EventsOf(1, "finished", 2) # {}
    /\ AllFinished(1) # {}

\* C2: jobs are attempted in queue order: every signal of job j, and every
\* subprocess launched for job j, comes after a terminal signal of each job
\* queued before j.
C2_QueueOrder ==
    \A c \in Converters :
        /\ \A k \in Positions(c) :
              \A i \in 1..(emitted[c][k].job - 1) :
                  \E k2 \in 1..(k - 1) :
                      IsTerminal(emitted[c][k2]) /\ emitted[c][k2].job = i
        /\ \A p \in alive[c] : \A i \in 1..(p.job - 1) : TerminalsOf(c, i) # {}

\* the encoder of the second job is running and has reported progress, after
\* the first job got its terminal signal
C2_Witness ==
    /\ Subprocess(2, 2) \in alive[1]
    /\ EventsOf(1, "progress", 2) # {}
    /\ TerminalsOf(1, 1) # {}

\* C3: once the stop flag is set while the runner is between two jobs (or
\* past the loop), the run emits no further signal and launches no
\* subprocess: it goes from the for loop to the reset of the flag.
C3_StopBetweenJobs ==
    [][\A c \in Converters :
          (is_stopped[c] /\ pc[c] \in {"loop", "final"}) =>
              /\ emitted'[c] = emitted[c]
              /\ alive'[c] \subseteq alive[c]
              /\ pc'[c] \in {"loop", "final", "reset"}]_vars

\* a run of two jobs was stopped after the first job finished by itself: it
\* reaches the reset with the one finished signal and nothing else
C3_Witness ==
    /\ pc[1] = "reset" /\ is_stopped[1]
    /\ Len(conversion_queue[1]) = 2
    /\ idx[1] = 2
    /\ term_sent[1] = {}
    /\ Len(emitted[1]) = 1
    /\ emitted[1][1].kind = "finished" /\ emitted[1][1].job = 1

\* C4 (as claimed): a stop() issued during a run, before all_finished is
\* emitted, suppresses all_finished.
C4_StopSuppressesAllFinished ==
    \A c \in Converters : stop_seen[c] => AllFinished(c) = {}

\* C5: a job is started only when the flag was just read as clear; a line is
\* read only after the flag was read as clear at the top of the iteration;
\* when the flag is read as set there, the encoder is sent terminate and the
\* loop is left; after that no job is inside convert except the stopped one.
C5_StopFlagPolling ==
    [][\A c \in Converters :
          /\ (pc'[c] = "check_ffmpeg" /\ pc[c] # "check_ffmpeg") =>
                 (pc[c] = "loop" /\ ~is_stopped[c])
          /\ (pc'[c] = "mon_read" /\ pc[c] # "mon_read") =>
                 (pc[c] = "mon_check" /\ ~is_stopped[c])
          /\ (pc[c] = "mon_check" /\ is_stopped[c] /\ pc'[c] # pc[c]) =>
                 (Subprocess(idx[c], 2) \in term_sent'[c] /\ pc'[c] = "post")
          /\ (term_sent'[c] # {} /\ InConvert(c)') =>
                 (pc'[c] = "post" /\ Subprocess(idx'[c], 2) \in term_sent'[c])
      ]_vars

\* the encoder of the first of two jobs was sent terminate, and the run
\* ended without starting the second
C5_Witness ==
    /\ pc[1] = "reset"
    /\ Len(conversion_queue[1]) = 2
    /\ term_sent[1] = {Subprocess(1, 2)}
    /\ idx[1] = 2
    /\ TerminalsOf(1, 2) = {}

\* C6 (as claimed): a run during which stop() was not called attempts all
\* its jobs and emits all_finished, whatever happened before it began.
C6_FreshRunIgnoresEarlierStop ==
    \A c \in Converters :
        (pc[c] = "reset" /\ ~stop_seen[c] /\ conversion_queue[c] # <<>>) =>
            /\ AllFinished(c) # {}
            /\ \A j \in 1..Len(conversion_queue[c]) : TerminalsOf(c, j) # {}

\* C7: within a run at most one transcoder subprocess (first pass or main
\* encoder) is alive, and a subprocess that is alive belongs to the job being
\* converted or was sent terminate.
C7_OneSubprocess ==
    \A c \in Converters :
        /\ Cardinality(alive[c]) <= 1
        /\ \A p \in alive[c] :
              (InConvert(c) /\ p.job = idx[c]) \/ p \in term_sent[c]

\* the first pass of the second job is running after the first job's
\* encoder ran to its exit
C7_Witness ==
    /\ alive[1] = {Subprocess(2, 1)}
    /\ EventsOf(1, "progress", 1) # {}
    /\ EventsOf(1, "finished", 1) # {}

\* the worker threads that are executing run(), and the transcoder
\* subprocesses that are alive, over all Converter instances
Workers == {c \in Converters : pc[c] # "idle"}
ActiveSubprocesses ==
    UNION {{<<c, p>> : p \in alive[c]} : c \in Converters}

\* C8 (as claimed): whatever Start Conversion and Cancel Conversion actions
\* were made, at most one conversion worker is executing and at most one
\* transcoder subprocess is alive.
C8_OneWorkerOneSubprocess ==
    /\ Cardinality(Workers) <= 1
    /\ Cardinality(ActiveSubprocesses) <= 1

\* the arguments that follow a flag in the command of converter c
ArgsAfter(c, flag) ==
    {cmd[c][k + 1] : k \in {n \in 1..(Len(cmd[c]) - 1) : cmd[c][n] = flag}}

\* floor(target_size_bytes * 8 / (duration * 1000)) clamped to 100..8000
ClampedBitrate(target, dur) ==
    LET q == (target * 1024 * 1024 * 8) \div (dur * 10) IN
    IF q < 100 THEN 100 ELSE IF q > 8000 THEN 8000 ELSE q

\* C9: once the command of a job with a target size is built, the bitrate
\* bound to bitrate_kbps is clamp(floor(bytes * 8 / (duration * 1000)), 100,
\* 8000), it lies in 100..8000, and it is the value written after -b:v (and
\* after -maxrate in two-pass mode), with or without resizing.
C9_BitrateClamped ==
    \A c \in Converters :
        (cmd[c] # <<>> /\ target_size_mb[c] # None) =>
            /\ duration[c] > 0
            /\ bitrate_kbps[c] # None
            /\ bitrate_kbps[c][1] \in 100..8000
            /\ bitrate_kbps[c][1] = ClampedBitrate(target_size_mb[c][1], duration[c])
            /\ ArgsAfter(c, "-b:v") = {ToString(bitrate_kbps[c][1]) \o "k"}
            /\ ArgsAfter(c, "-maxrate") \subseteq ArgsAfter(c, "-b:v")
            /\ (size_reduction_method_selected[c] = TwoPass) =>
                   ArgsAfter(c, "-maxrate") # {}

\* a two-pass command with resizing was built for 10 MB and 90 s: 932k, a
\* value strictly inside the clamp
C9_Witness ==
    /\ target_size_mb[1] = Some(10)
    /\ duration[1] = 9000
    /\ ArgsAfter(1, "-vf") # {}
    /\ ArgsAfter(1, "-pass") = {"2"}
    /\ ArgsAfter(1, "-b:v") = {"932k"}

\* the elapsed time, in centiseconds, written in a time=HH:MM:SS.cc token
Elapsed(line) ==
    line.fields[1].val * 360000 + line.fields[2].val * 6000 + line.fields[3].val

\* C10: a step that emits a progress signal emits, for the line it has just
\* read, percent = min(100, floor(elapsed / duration * 100)): an integer in
\* 0..100 that is 100 when elapsed >= duration and otherwise satisfies
\* percent <= elapsed * 100 / duration < percent + 1.
C10_PercentOfElapsed ==
    [][\A c \in Converters :
          (/\ Len(emitted'[c]) = Len(emitted[c]) + 1
           /\ emitted'[c][Len(emitted'[c])].kind = "progress") =>
              LET elapsed == Elapsed(Head(stderr_pipe[c]))
                  percent == emitted'[c][Len(emitted'[c])].percent
              IN  /\ duration[c] > 0
                  /\ percent \in 0..100
                  /\ IF elapsed >= duration[c]
                     THEN percent = 100
                     ELSE /\ percent * duration[c] <= elapsed * 100
                          /\ elapsed * 100 < (percent + 1) * duration[c]
      ]_vars

\* a 90 s file reported 45 s and then 200 s: 50 percent, then the capped 100
C10_Witness ==
    /\ duration[1] = 9000
    /\ Len(emitted[1]) = 2
    /\ emitted[1][1].kind = "progress" /\ emitted[1][1].percent = 50
    /\ emitted[1][2].kind = "progress" /\ emitted[1][2].percent = 100

\* a line without a usable time: no time= token, or a token that does not
\* consist of three numeric fields
Malformed(line) ==
    \/ ~line.has_time
    \/ Len(line.fields) # 3
    \/ \E k \in 1..Len(line.fields) : ~line.fields[k].num

\* C11: a step that reads a malformed line, or gets '' from readline, emits
\* no signal and does not raise (the job stays in the monitoring loop or
\* leaves it because the encoder exited); and when convert ends without a
\* stop, the terminal signal is finished for exit code 0 and error otherwise.
C11_MalformedLinesSkipped ==
    [][\A c \in Converters :
          /\ (pc[c] = "mon_read" /\ pc'[c] # "mon_read"
              /\ (stderr_pipe[c] = <<>> \/ Malformed(Head(stderr_pipe[c])))) =>
                 /\ emitted'[c] = emitted[c]
                 /\ pc'[c] \in {"mon_check", "post"}
                 /\ idx'[c] = idx[c]
          /\ (pc[c] = "post" /\ pc'[c] # "post" /\ ~is_stopped[c]) =>
                 /\ Len(emitted'[c]) = Len(emitted[c]) + 1
                 /\ emitted'[c][Len(emitted'[c])].job = idx[c]
                 /\ emitted'[c][Len(emitted'[c])].kind =
                        IF returncode[c] = Some(0) THEN "finished" ELSE "error"
      ]_vars

\* two malformed lines of the garbled output were read, nothing was emitted,
\* and the job is still being monitored
C11_Witness ==
    /\ pc[1] = "mon_check"
    /\ stderr_pipe[1] = <<LineShort>>
    /\ emitted[1] = <<>>
    /\ failed[1] = {}

\* C12: a command built for a job with audio policy Copy and a resize filter
\* carries -c:a aac -b:a 192k and no -c:a copy, whatever the target size,
\* the pass mode and the probed audio codec.
C12_CopyWithResizeGivesAAC ==
    \A c \in Converters :
        (/\ cmd[c] # <<>>
         /\ CurrentJob(c).audio_settings = AudioCopy
         /\ CurrentJob(c).resize_settings # <<>>) =>
            /\ ArgsAfter(c, "-c:a") = {"aac"}
            /\ ArgsAfter(c, "-b:a") = {"192k"}

\* a two-pass command for 250 MB with resize and audio Copy was built for a
\* source whose audio stream is AAC already
C12_Witness ==
    /\ cmd[1] # <<>>
    /\ CurrentJob(1).audio_settings = AudioCopy
    /\ CurrentJob(1).resize_settings # <<>>
    /\ target_size_mb[1] = Some(250)
    /\ size_reduction_method_selected[1] = TwoPass
    /\ metadata[1] = Some(ProbeVideoAudio)

\* the probe succeeded and lists no stream of type audio
NoAudioStream(probe) ==
    /\ probe.ok
    /\ \A k \in 1..Len(probe.streams) : probe.streams[k].codec_type # "audio"

\* C13 (as claimed): a command built for a job with audio policy Copy whose
\* source has no audio stream carries the AAC arguments and no -c:a copy,
\* also without resize.
C13_CopyWithoutAudioStreamGivesAAC ==
    \A c \in Converters :
        (/\ cmd[c] # <<>>
         /\ CurrentJob(c).audio_settings = AudioCopy
         /\ metadata[c] # None
         /\ NoAudioStream(metadata[c][1])) =>
            /\ ArgsAfter(c, "-c:a") = {"aac"}
            /\ ArgsAfter(c, "-b:a") = {"192k"}

\* C14: a built command contains -c:v copy exactly when the job has neither
\* a resize filter nor a target size; -vf is present exactly when the job has
\* a resize filter, and then the only video codec named is libx264.
C14_VideoCopyOnlyWhenUntouched ==
    \A c \in Converters :
        cmd[c] # <<>> =>
            /\ ("copy" \in ArgsAfter(c, "-c:v")) <=>
                   (CurrentJob(c).resize_settings = <<>> /\ target_size_mb[c] = None)
            /\ (ArgsAfter(c, "-vf") # {}) <=> (CurrentJob(c).resize_settings # <<>>)
            /\ (ArgsAfter(c, "-vf") # {}) =>
                   /\ ArgsAfter(c, "-vf") = {CurrentJob(c).resize_settings[1]}
                   /\ ArgsAfter(c, "-c:v") = {"libx264"}

\* a command with a resize filter and no target size was built: libx264
C14_Witness ==
    /\ cmd[1] # <<>>
    /\ CurrentJob(1).resize_settings # <<>>
    /\ target_size_mb[1] = None
    /\ ArgsAfter(1, "-c:v") = {"libx264"}

\* the error signal run emits for the current job when convert raised message
ErrorSignal(c, message) ==
    Ev("error", idx[c], CurrentJob(c).input_path, 0,
       ConversionFailed(CurrentJob(c).input_path, message))

\* C15: when the duration lookup gave 0, convert leaves the job at once: the
\* step emits the error signal saying the duration could not be determined,
\* launches nothing, and the runner moves to the next job; no first pass and
\* no encoder of that job was launched before the lookup either.
C15_ZeroDurationAborts ==
    [][\A c \in Converters :
          (pc[c] = "check_duration" /\ duration[c] = 0
           /\ pc'[c] # "check_duration") =>
              /\ emitted'[c] =
                     Append(emitted[c],
                            ErrorSignal(c, "Could not determine video duration"))
              /\ alive'[c] = alive[c]
              /\ \A p \in alive'[c] : p.job # idx[c]
              /\ pc'[c] = "loop" /\ idx'[c] = idx[c] + 1
      ]_vars

\* the first job of a run got the duration error and nothing else happened
C15_Witness ==
    /\ pc[1] = "loop" /\ idx[1] = 2
    /\ Len(emitted[1]) = 1
    /\ emitted[1][1].kind = "error"
    /\ emitted[1][1].message =
           ConversionFailed(InputPath(1), "Could not determine video duration")
    /\ alive[1] = {}

\* C16: when convert ends with the stop flag clear, the step emits exactly one
\* signal for the job, finished(path) if the main encoder's exit code is 0 and
\* error(path, message) otherwise; the job then has that one terminal signal
\* and no other, and the runner moves to the next job.
C16_ExitCodeDecides ==
    [][\A c \in Converters :
          (pc[c] = "post" /\ pc'[c] # "post" /\ ~is_stopped[c]) =>
              /\ returncode[c] # None
              /\ emitted'[c] =
                     Append(emitted[c],
                            IF returncode[c] = Some(0)
                            THEN Ev("finished", idx[c], CurrentJob(c).input_path, 0, "")
                            ELSE ErrorSignal(c, "FFmpeg error"))
              /\ \A k \in 1..Len(emitted[c]) :
                     emitted[c][k].job = idx[c] => emitted[c][k].kind = "progress"
              /\ pc'[c] = "loop" /\ idx'[c] = idx[c] + 1
      ]_vars

\* the encoder of the first job exited non-zero and the job got the error;
\* the encoder of the second job exited with 0 and the job got finished
C16_Witness ==
    /\ Len(conversion_queue[1]) = 2
    /\ ~stop_seen[1]
    /\ \E k \in EventsOf(1, "error", 1) :
           emitted[1][k].message = ConversionFailed(InputPath(1), "FFmpeg error")
    /\ EventsOf(1, "finished", 1) = {}
    /\ EventsOf(1, "finished", 2) # {}
    /\ EventsOf(1, "error", 2) = {}

\* the number of cells add_metadata sets in a row of the model
RowCells == Len(FirstCells(VideoMetadata(ClipA, ProbeVideoAudio))) + 1

\* C17 (as claimed): whatever ffprobe does, no exception leaves add_files,
\* and every file in the list that was examined has a complete metadata row.
C17_ProbeFailureIsNotFatal ==
    /\ ~escaped
    /\ \A r \in 1..Len(metadata_table) : Len(metadata_table[r]) = RowCells

\* C18: no step of run or convert changes a queued job: every entry of the
\* queue keeps the four fields add_file stored, in the same position, also
\* when convert replaces the audio arguments in the command it builds.
C18_QueuedJobsUnchanged ==
    [][\A c \in Converters :
          \A k \in 1..Len(conversion_queue[c]) :
              /\ Len(conversion_queue'[c]) >= k
              /\ conversion_queue'[c][k] = conversion_queue[c][k]]_vars

\* an audio-copy job whose command was built with AAC arguments is still
\* queued with its copy arguments after the encoder was launched
C18_Witness ==
    /\ pc[1] = "mon_check"
    /\ conversion_queue[1][idx[1]]
           = Job(InputPath(idx[1]), OutputPath(idx[1]), AudioCopy, <<>>)
    /\ ArgsAfter(1, "-c:a") = {"aac"}

\* C19 (as claimed): a job is taken out of the queue once its attempt has
\* ended: no job whose finished or error signal was emitted is still held
\* in conversion_queue, so that a later run finds nothing to attempt again.
C19_JobConsumedAfterAttempt ==
    \A c \in Converters :
        \A k \in Positions(c) :
            IsTerminal(emitted[c][k]) =>
                \A j \in 1..Len(conversion_queue[c]) :
                    conversion_queue[c][j].input_path # emitted[c][k].path

C21_StopDuringFirstPass ==
    [][\A c \in Converters :
          /\ (pc[c] = "first_pass" /\ ~is_stopped[c] /\ is_stopped'[c]) =>
                 /\ pc'[c] = "first_pass"
                 /\ alive'[c] = alive[c]
                 /\ term_sent'[c] = term_sent[c]
          /\ (pc[c] = "first_pass" /\ is_stopped[c] /\ pc'[c] # "first_pass") =>
                 /\ Subprocess(idx[c], 1) \notin term_sent[c]
                 /\ EventsOf(c, "progress", idx[c]) = {}
                 /\ \/ /\ pc'[c] = "mon_check"
                       /\ is_stopped'[c]
                       /\ alive'[c] = {Subprocess(idx[c], 2)}
                       /\ emitted'[c] = emitted[c]
                    \/ /\ pc'[c] = "loop"
                       /\ Len(emitted'[c]) = Len(emitted[c]) + 1
                       /\ emitted'[c][Len(emitted'[c])].kind = "error"
                       /\ emitted'[c][Len(emitted'[c])].job = idx[c]
          /\ (pc[c] = "mon_check" /\ is_stopped[c] /\ pc'[c] # "mon_check") =>
                 /\ pc'[c] = "post"
                 /\ Subprocess(idx[c], 2) \in term_sent'[c]
                 /\ emitted'[c] = emitted[c]
      ]_vars

\* a two-pass job of a stopped run: the first pass has exited, the
\* second-pass encoder was launched and sent terminate before a line was
\* read, and no signal was emitted
C21_Witness ==
    /\ pc[1] = "post"
    /\ stop_seen[1]
    /\ idx[1] = 1
    /\ ArgsAfter(1, "-pass") = {"2"}
    /\ Subprocess(1, 2) \in term_sent[1]
    /\ stderr_pipe[1] = SteadyProgress
    /\ emitted[1] = <<>>

\* C22: once the stop flag is set while the main encoder is monitored, the
\* worker finishes at most the one readline it is in (one line taken from
\* the pipe, at most one progress signal) and is then at the top of the
\* loop or past it; at the top of the loop it reads the flag, sends
\* terminate and leaves the loop without reading or emitting anything.
C22_CancelWithinOneLine ==
    [][\A c \in Converters :
          /\ (is_stopped[c] /\ pc[c] = "mon_read" /\ pc'[c] # "mon_read") =>
                 /\ pc'[c] \in {"mon_check", "post"}
                 /\ is_stopped'[c]
                 /\ Len(stderr_pipe'[c]) >= Len(stderr_pipe[c]) - 1
                 /\ Len(emitted'[c]) <= Len(emitted[c]) + 1
          /\ (is_stopped[c] /\ pc[c] = "mon_check" /\ pc'[c] # "mon_check") =>
                 /\ pc'[c] = "post"
                 /\ Subprocess(idx[c], 2) \in term_sent'[c]
                 /\ stderr_pipe'[c] = stderr_pipe[c]
                 /\ Len(emitted'[c]) = Len(emitted[c])
      ]_vars

\* the encoder was sent terminate after it had reported progress once, with
\* lines of its output still unread
C22_Witness ==
    /\ pc[1] = "post"
    /\ idx[1] = 1
    /\ Subprocess(1, 2) \in term_sent[1]
    /\ Cardinality(EventsOf(1, "progress", 1)) = 1
    /\ stderr_pipe[1] = <<LineT200>>

\* C23: in two-pass mode with a target size the command is never launched
\* straight from its construction: the first pass is started first; the
\* main encoder exists only when the first pass has returned exit status 0,
\* and its command then holds -pass 2 and the clamped bitrate after both
\* -b:v and -maxrate; when the first pass has ended without a launch the
\* job has got its error signal and no second pass.
C23_SecondPassAfterFirst ==
    [][\A c \in Converters :
          (size_reduction_method_selected[c] = TwoPass
           /\ target_size_mb[c] # None) =>
              /\ (pc[c] = "build" /\ pc'[c] # "build") =>
                     /\ pc'[c] = "first_pass"
                     /\ alive'[c] = {Subprocess(idx[c], 1)}
              /\ (pc[c] = "first_pass" /\ pc'[c] # "first_pass") =>
                     \/ /\ pc'[c] = "mon_check"
                        /\ pass1_returncode'[c] = Some(0)
                        /\ alive'[c] = {Subprocess(idx[c], 2)}
                        /\ ArgsAfter(c, "-pass")' = {"2"}
                        /\ ArgsAfter(c, "-b:v")' =
                               {BitrateArg(ClampedBitrate(target_size_mb[c][1],
                                                          duration[c]))}
                        /\ ArgsAfter(c, "-maxrate")' = ArgsAfter(c, "-b:v")'
                     \/ /\ pc'[c] = "loop"
                        /\ alive'[c] = {}
                        /\ emitted'[c] =
                               Append(emitted[c],
                                      Ev("error", idx[c], CurrentJob(c).input_path, 0,
                                         ConversionFailed(
                                             CurrentJob(c).input_path,
                                             "Command returned non-zero exit status")))
              /\ (Subprocess(idx[c], 2) \in alive[c]) =>
                     pass1_returncode[c] = Some(0)
      ]_vars

\* the second pass of a resized job runs with 932k as target and as maximum
\* rate, after a first pass that returned 0
C23_Witness ==
    /\ size_reduction_method_selected[1] = TwoPass
    /\ pass1_returncode[1] = Some(0)
    /\ alive[1] = {Subprocess(1, 2)}
    /\ pc[1] = "mon_read"
    /\ ArgsAfter(1, "-vf") # {}
    /\ ArgsAfter(1, "-b:v") = {"932k"}
    /\ ArgsAfter(1, "-maxrate") = {"932k"}

\* the filter the resize request of the widgets stands for: scale with
\* force_original_aspect_ratio "increase" when upscaling is allowed and
\* "decrease" otherwise, then pad or crop to the target size
RequestedFilter(widgets) ==
    LET w == IntText(widgets.width_input)[1]
        h == IntText(widgets.height_input)[1]
    IN  ScaleFilter(w, h, IF widgets.allow_upscaling_checkbox
                          THEN "increase" ELSE "decrease")
        \o "," \o (IF widgets.aspect_ratio_dropdown = PadMode
                    THEN PaddingFilter(w, h) ELSE CropFilter(w, h))

\* C24 (as claimed): every job start_conversion enqueues with a resize
\* filter carries the filter of the request, in both aspect modes:
\* "increase" exactly when upscaling is allowed, then pad or crop.
C24_ResizeFilterFollowsRequest ==
    [][created' # created =>
          \A j \in 1..Len(conversion_queue'[created']) :
              LET resize_settings == conversion_queue'[created'][j].resize_settings
              IN  resize_settings # <<>> =>
                      resize_settings = <<RequestedFilter(resize_widgets)>>]_vars

\* the stream types a probe output lists
StreamTypes(probe) ==
    {probe.streams[k].codec_type : k \in 1..Len(probe.streams)}

\* C25 (as claimed): the VideoMetadata that convert builds from a probe
\* output without audio stream has audio_codec "N/A", and from one without
\* video stream has video_codec "N/A" (resolution is assigned together with
\* video_codec, lines 68-69).
C25_MissingStreamsGiveSentinel ==
    \A c \in Converters :
        (metadata[c] # None /\ metadata[c][1].ok) =>
            LET probe == metadata[c][1] IN
            /\ "audio" \notin StreamTypes(probe) => audio_codec(probe) = "N/A"
            /\ "video" \notin StreamTypes(probe) =>
                   VideoCodecOf(probe.streams, "") = "N/A"

\* C26 (as claimed): the finished signal is emitted only for a job whose
\* main encoder was seen to exit with code 0; a job whose encoder was sent
\* terminate, or exited non-zero, is not reported as finished, whether or
\* not the stop flag is set.
C26_FinishedOnlyAfterExitZero ==
    [][\A c \in Converters :
          (Len(emitted'[c]) = Len(emitted[c]) + 1
           /\ emitted'[c][Len(emitted'[c])].kind = "finished") =>
              /\ returncode[c] = Some(0)
              /\ Subprocess(idx[c], 2) \notin term_sent[c]
      ]_vars

\* the signals of converter c that belong to job j
SignalsOf(c, j) == {k \in Positions(c) : emitted[c][k].job = j}

\* C27: in a run, every job whose attempt has ended has exactly one terminal
\* signal (finished or error); the job being converted has none yet; a job
\* that was not started has no signal at all; and every progress signal of
\* a job comes before the terminal signal of that job.
C27_OneTerminalPerStartedJob ==
    \A c \in Converters :
        \A j \in 1..Len(conversion_queue[c]) :
            /\ j < idx[c] => Cardinality(TerminalsOf(c, j)) = 1
            /\ (j = idx[c] /\ InConvert(c)) => TerminalsOf(c, j) = {}
            /\ (j > idx[c] \/ (j = idx[c] /\ ~InConvert(c))) => SignalsOf(c, j) = {}
            /\ \A k \in EventsOf(c, "progress", j) :
                   \A t \in TerminalsOf(c, j) : k < t

\* a stopped run of two jobs has ended: the first job reported progress
\* and then got its one terminal signal, the second was not started and
\* has no signal
C27_Witness ==
    /\ pc[1] = "idle"
    /\ Len(conversion_queue[1]) = 2
    /\ idx[1] = 2
    /\ stop_seen[1]
    /\ Cardinality(EventsOf(1, "progress", 1)) = 2
    /\ Cardinality(TerminalsOf(1, 1)) = 1
    /\ SignalsOf(1, 2) = {}

\* C28 (as claimed): a slot of the main window handles a signal of a
\* Converter only while that Converter is the current one: once
\* cancel_conversion has dropped it, none of its signals is handled any
\* more, also when a new batch was started meanwhile.
C28_NoSignalAfterCancel ==
    [][\A c \in Converters :
          delivered'[c] # delivered[c] => current_converter = c]_vars

\* C29 (as claimed): in a batch built by start_conversion no two jobs have
\* the same output path, whatever add_files calls filled the list.
C29_OutputPathsDistinct ==
    \A c \in 1..created :
        \A i, j \in 1..Len(conversion_queue[c]) :
            i # j =>
                conversion_queue[c][i].output_path
                    # conversion_queue[c][j].output_path

\* a run that was cut short by the stop flag: stop() was called during the
\* run, or the flag was already set when the run began and the run ended at
\* its first check
Cancelled(c) == stop_seen[c] \/ (idx[c] = 1 /\ emitted[c] = <<>>)

\* C30: when every blocking call returns and every encoder exits, a run
\* that has begun ends, whatever the queue and whenever stop() is called:
\* run returns with the stop flag cleared, having emitted all_finished or
\* having been cancelled.
C30_RunTerminates ==
    \A c \in Converters :
        (pc[c] # "idle") ~>
            (/\ pc[c] = "idle"
             /\ ~is_stopped[c]
             /\ (AllFinished(c) # {} \/ Cancelled(c)))

\* a run of two jobs has returned after both encoders reported progress
\* and exited; all_finished was emitted and the flag is clear
C30_Witness ==
    /\ pc[1] = "idle"
    /\ idx[1] = 3
    /\ ~is_stopped[1]
    /\ EventsOf(1, "progress", 1) # {}
    /\ EventsOf(1, "progress", 2) # {}
    /\ AllFinished(1) = {Len(emitted[1])}

====
